---- MODULE Spec2Model ----
(***************************************************************************)
(* A model of the ADSIngestParser dialect parsers:                         *)
(*   adsingestp/parsers/wiley.py  (WileyParser)                            *)
(*   adsingestp/parsers/arxiv.py  (MultiArxivParser, ArxivParser)          *)
(*                                                                         *)
(* Representation                                                          *)
(*   - a Python dict is a function whose domain is its set of keys;        *)
(*   - a Python list is a sequence;                                        *)
(*   - a value that may be None is a sequence of length at most one:       *)
(*     None is <<>> and a present value v is <<v>>;                        *)
(*   - a string the code takes apart (slices, splits, searches) is a       *)
(*     sequence of one-character strings; a string the code only copies    *)
(*     is a TLA+ string;                                                   *)
(*   - an XML node is a record of what the code reads from it: one field   *)
(*     per child tag (the find_all result, in document order) or           *)
(*     attribute.  Attributes the code indexes with [] are taken to be     *)
(*     present on every node that carries them.                            *)
(*   - an operation that can raise returns [self |-> S, exc |-> E], the    *)
(*     instance state at the point of the raise (or at the end) and the    *)
(*     exception type name, NoExc when none was raised.                    *)
(***************************************************************************)
EXTENDS Integers, Sequences, FiniteSets, TLC

VARIABLES cls, self, text, output, pc, calls

vars == <<cls, self, text, output, pc, calls>>

----------------------------------------------------------------------------
(* Python values *)

None == <<>>

Some(v) == <<v>>

IsNone(o) == o = <<>>

Val(o) == o[1]

NoExc == "none"

EmptyDict == [k \in {} |-> <<>>]

Has(d, k) == k \in DOMAIN d

Put(d, k, v) == [x \in (DOMAIN d) \cup {k} |-> IF x = k THEN v ELSE d[x]]

Ok(s) == [self |-> s, exc |-> NoExc]

Raise(s, e) == [self |-> s, exc |-> e]

SetMeta(s, bm) == [s EXCEPT !.base_metadata = bm]

(* str.split(sep): the pieces between separators, empty pieces kept *)
RECURSIVE SplitAcc(_, _, _, _)
SplitAcc(s, sep, cur, acc) ==
    IF s = <<>> THEN Append(acc, cur)
    ELSE IF Head(s) = sep THEN SplitAcc(Tail(s), sep, <<>>, Append(acc, cur))
    ELSE SplitAcc(Tail(s), sep, Append(cur, Head(s)), acc)

StrSplit(s, sep) == SplitAcc(s, sep, <<>>, <<>>)

(* str.split() with no argument: runs of whitespace separate, no empty piece *)
StrSplitWs(s) == SelectSeq(StrSplit(s, " "), LAMBDA t : t # <<>>)

(* s[-n:] *)
LastChars(s, n) == IF Len(s) <= n THEN s ELSE SubSeq(s, Len(s) - n + 1, Len(s))

(* str.replace(c, "") for a one-character c *)
RemoveChar(s, c) == SelectSeq(s, LAMBDA x : x # c)

(* sep.join(parts) *)
RECURSIVE StrJoin(_, _)
StrJoin(parts, sep) ==
    IF parts = <<>> THEN <<>>
    ELSE IF Len(parts) = 1 THEN parts[1]
    ELSE parts[1] \o sep \o StrJoin(Tail(parts), sep)

----------------------------------------------------------------------------
(* WileyParser *)

Wiley_init ==
    [base_metadata |-> EmptyDict,
     pubmeta_prod |-> None,
     pubmeta_part |-> None,
     pubmeta_unit |-> None,
     content_meta |-> None,
     bib |-> None]

(* the sentinels of _parse_page: "n/a" and "no" *)
PageSentinels == {<<"n", "/", "a">>, <<"n", "o">>}

RECURSIVE IssnLoop(_, _)
IssnLoop(acc, nodes) ==
    IF nodes = <<>> THEN acc
    ELSE IssnLoop(Append(acc, <<Head(nodes).type, Head(nodes).text>>), Tail(nodes))

RECURSIVE PubIdLoop(_, _)
PubIdLoop(acc, nodes) ==
    IF nodes = <<>> THEN acc
    ELSE IF Head(nodes).type \notin {"society", "eLocator"}
         THEN PubIdLoop(Append(acc, [attribute |-> Head(nodes).type,
                                     Identifier |-> Head(nodes).value]),
                        Tail(nodes))
         ELSE PubIdLoop(acc, Tail(nodes))

Wiley_parse_ids(s) ==
    LET bm1 == Put(Put(s.base_metadata, "ids", EmptyDict), "issn", <<>>)
    IN  IF IsNone(s.pubmeta_prod) THEN Raise(SetMeta(s, bm1), "AttributeError")
        ELSE
        LET bm2 == Put(bm1, "issn", IssnLoop(<<>>, Val(s.pubmeta_prod).issn))
        IN  IF IsNone(s.pubmeta_unit) THEN Raise(SetMeta(s, bm2), "AttributeError")
            ELSE
            LET u == Val(s.pubmeta_unit)
                ids1 == IF IsNone(u.doi) THEN bm2["ids"]
                        ELSE Put(bm2["ids"], "doi", Val(u.doi))
                ids2 == Put(ids1, "pub-id", PubIdLoop(<<>>, u.id))
            IN  Ok(SetMeta(s, Put(bm2, "ids", ids2)))

RECURSIVE PubTitleLoop(_, _)
PubTitleLoop(bm, nodes) ==
    IF nodes = <<>> THEN bm
    ELSE IF Head(nodes).type = "main"
         THEN PubTitleLoop(Put(bm, "publication", Head(nodes).text), Tail(nodes))
         ELSE PubTitleLoop(bm, Tail(nodes))

RECURSIVE VolumeLoop(_, _)
VolumeLoop(bm, nodes) ==
    IF nodes = <<>> THEN bm
    ELSE IF Head(nodes).type = "journalVolume"
         THEN VolumeLoop(Put(bm, "volume", Head(nodes).text), Tail(nodes))
    ELSE IF Head(nodes).type = "journalIssue"
         THEN VolumeLoop(Put(bm, "issue", Head(nodes).text), Tail(nodes))
    ELSE VolumeLoop(bm, Tail(nodes))

Wiley_parse_pub(s) ==
    IF IsNone(s.pubmeta_prod) THEN Raise(s, "AttributeError")
    ELSE
    LET bm1 == PubTitleLoop(s.base_metadata, Val(s.pubmeta_prod).title)
    IN  IF IsNone(s.pubmeta_part) THEN Raise(SetMeta(s, bm1), "AttributeError")
        ELSE Ok(SetMeta(s, VolumeLoop(bm1, Val(s.pubmeta_part).numbering)))

(* lines 50-55: st = [bm, page_first]; page_first is None or Some(text) *)
RECURSIVE PageNumberingLoop(_, _)
PageNumberingLoop(st, nodes) ==
    IF nodes = <<>> THEN st
    ELSE LET n == Head(nodes) IN
         IF n.type = "pageFirst"
         THEN PageNumberingLoop([st EXCEPT !.page_first = Some(n.text)], Tail(nodes))
         ELSE IF n.type = "pageLast"
         THEN IF n.text \notin PageSentinels
              THEN PageNumberingLoop([st EXCEPT !.bm = Put(st.bm, "page_last", n.text)],
                                     Tail(nodes))
              ELSE PageNumberingLoop(st, Tail(nodes))
         ELSE PageNumberingLoop(st, Tail(nodes))

(* lines 57-62 *)
RECURSIVE PageIdLoop(_, _)
PageIdLoop(st, nodes) ==
    IF nodes = <<>> THEN st
    ELSE LET i == Head(nodes)
             st1 == IF i.type = "society"
                    THEN [st EXCEPT !.page_first = Some(i.text)] ELSE st
             st2 == IF i.type = "eLocator"
                    THEN [st1 EXCEPT !.bm = Put(st1.bm, "electronic_id",
                                                LastChars(i.text, 5))]
                    ELSE st1
         IN  PageIdLoop(st2, Tail(nodes))

(* Python truthiness of page_first: None and "" are false *)
PageFirstFalsy(pf) == IsNone(pf) \/ Val(pf) = <<>>

(* line 56: whether the society / eLocator fallback is taken *)
PageFallback(pf) == PageFirstFalsy(pf)

Wiley_parse_page(s) ==
    IF IsNone(s.pubmeta_unit) THEN Raise(s, "AttributeError")
    ELSE
    LET u == Val(s.pubmeta_unit)
        st1 == PageNumberingLoop([bm |-> s.base_metadata, page_first |-> None],
                                 u.numbering)
        st2 == IF PageFallback(st1.page_first) THEN PageIdLoop(st1, u.id) ELSE st1
        pf3 == IF ~IsNone(st2.page_first) /\ Val(st2.page_first) \in PageSentinels
               THEN None ELSE st2.page_first
        bm3 == IF ~PageFirstFalsy(pf3) THEN Put(st2.bm, "page_first", Val(pf3))
               ELSE st2.bm
        bm4 == IF ~IsNone(u.countGroup) /\ Val(u.countGroup) # <<>>
                  /\ Val(u.countGroup)[1].type = "pageTotal"
               THEN Put(bm3, "numpages", Val(u.countGroup)[1].number)
               ELSE bm3
    IN  Ok(SetMeta(s, bm4))

Dash == <<"-">>

(* lines 79-90 *)
PubdatePrint(bm, part) ==
    IF IsNone(part.coverDate) THEN bm
    ELSE LET pubdate == StrSplit(Val(part.coverDate), "-")
             year == pubdate[1]
             month == IF Len(pubdate) > 1 THEN pubdate[2] ELSE <<"0", "0">>
             day == IF Len(pubdate) > 2 THEN pubdate[3] ELSE <<"0", "0">>
         IN  Put(bm, "pubdate_print", year \o Dash \o month \o Dash \o day)

(* the loop body of lines 94-105 with the break of line 98 left out: the   *)
(* search goes on after a firstOnline event                                 *)
PubdateEvent_NoBreak(st, d) ==
    IF d.type = "firstOnline"
    THEN [bm |-> Put(st.bm, "pubdate_electronic", d.date), found |-> TRUE, brk |-> FALSE]
    ELSE IF d.type = "publishedOnlineFinalForm"
    THEN [st EXCEPT !.bm = Put(st.bm, "pubdate_electronic", d.date), !.found = TRUE]
    ELSE IF d.type = "publishedOnlineAccepted" /\ ~st.found
    THEN [st EXCEPT !.bm = Put(st.bm, "pubdate_electronic", d.date)]
    ELSE st

(* lines 94-105, one iteration: st = [bm, found, brk]; brk is the break *)
PubdateEvent(st, d) ==
    IF d.type = "firstOnline"
    THEN [bm |-> Put(st.bm, "pubdate_electronic", d.date), found |-> TRUE, brk |-> TRUE]
    ELSE IF d.type = "publishedOnlineFinalForm"
    THEN [st EXCEPT !.bm = Put(st.bm, "pubdate_electronic", d.date), !.found = TRUE]
    ELSE IF d.type = "publishedOnlineAccepted" /\ ~st.found
    THEN [st EXCEPT !.bm = Put(st.bm, "pubdate_electronic", d.date)]
    ELSE st

RECURSIVE PubdateLoop(_, _)
PubdateLoop(st, events) ==
    IF events = <<>> \/ st.brk THEN st
    ELSE PubdateLoop(PubdateEvent(st, Head(events)), Tail(events))

Wiley_parse_pubdate(s) ==
    IF IsNone(s.pubmeta_part) THEN Raise(s, "AttributeError")
    ELSE
    LET bm1 == PubdatePrint(s.base_metadata, Val(s.pubmeta_part))
    IN  IF IsNone(s.pubmeta_unit) THEN Raise(SetMeta(s, bm1), "AttributeError")
        ELSE Ok(SetMeta(s, PubdateLoop([bm |-> bm1, found |-> FALSE, brk |-> FALSE],
                                       Val(s.pubmeta_unit).event).bm))

(* dates_trans, lines 109-113 *)
dates_trans ==
    [manuscriptRevised |-> "edhist_rev",
     manuscriptReceived |-> "edhist_rec",
     manuscriptAccepted |-> "edhist_acc"]

(* lines 115-122, one iteration *)
EdhistoryEvent(bm, d) ==
    IF d.type \in DOMAIN dates_trans
    THEN LET date_out == IF d.type = "manuscriptAccepted" THEN d.date ELSE <<d.date>>
         IN  Put(bm, dates_trans[d.type], date_out)
    ELSE bm

RECURSIVE EdhistoryLoop(_, _)
EdhistoryLoop(bm, events) ==
    IF events = <<>> THEN bm
    ELSE EdhistoryLoop(EdhistoryEvent(bm, Head(events)), Tail(events))

Wiley_parse_edhistory(s) ==
    IF IsNone(s.pubmeta_unit) THEN Raise(s, "AttributeError")
    ELSE Ok(SetMeta(s, EdhistoryLoop(s.base_metadata, Val(s.pubmeta_unit).event)))

(* BaseBeautifulSoupParser._clean_output: a pure text function of base.py *)
clean_output(t) == <<"clean_output", t>>

RECURSIVE TitleLoop(_, _)
TitleLoop(bm, nodes) ==
    IF nodes = <<>> THEN bm
    ELSE IF Head(nodes).type = "main"
         THEN TitleLoop(Put(bm, "title", Head(nodes).text), Tail(nodes))
         ELSE TitleLoop(bm, Tail(nodes))

RECURSIVE AbstractLoop(_, _)
AbstractLoop(bm, nodes) ==
    IF nodes = <<>> THEN bm
    ELSE IF Head(nodes).type = "main"
         THEN AbstractLoop(Put(bm, "abstract", clean_output(Head(nodes).text)), Tail(nodes))
         ELSE AbstractLoop(bm, Tail(nodes))

Wiley_parse_title_abstract(s) ==
    IF IsNone(s.content_meta) THEN Raise(s, "AttributeError")
    ELSE
    LET c == Val(s.content_meta)
        bm1 == IF IsNone(c.titleGroup) THEN s.base_metadata
               ELSE TitleLoop(s.base_metadata, Val(c.titleGroup))
        bm2 == IF IsNone(c.abstractGroup) THEN bm1
               ELSE AbstractLoop(bm1, Val(c.abstractGroup))
    IN  Ok(SetMeta(s, bm2))

Wiley_parse_copyright(s) ==
    IF IsNone(s.pubmeta_unit) THEN Raise(s, "AttributeError")
    ELSE LET u == Val(s.pubmeta_unit) IN
         IF IsNone(u.copyright) THEN Ok(s)
         ELSE Ok(SetMeta(s, Put(s.base_metadata, "copyright", Val(u.copyright))))

(* orcid_format, line 9: (\d{4}-){3}\d{3}(\d|X) *)
Digits == {"0", "1", "2", "3", "4", "5", "6", "7", "8", "9"}

OrcidMatchAt(v, i) ==
    /\ i + 18 <= Len(v)
    /\ \A g \in 0..2 :
          /\ \A k \in 0..3 : v[i + 5 * g + k] \in Digits
          /\ v[i + 5 * g + 4] = "-"
    /\ \A k \in 15..17 : v[i + k] \in Digits
    /\ v[i + 18] \in Digits \cup {"X"}

(* orcid_format.search(v): None, or Some(group(0)) of the leftmost match *)
OrcidSearch(v) ==
    LET hits == {i \in 1..Len(v) : OrcidMatchAt(v, i)}
    IN  IF hits = {} THEN None
        ELSE LET i == CHOOSE x \in hits : \A y \in hits : x <= y
             IN  Some(SubSeq(v, i, i + 18))

(* lines 143-147 *)
RECURSIVE AffDictLoop(_, _)
AffDictLoop(aff_dict, nodes) ==
    IF nodes = <<>> THEN aff_dict
    ELSE AffDictLoop(Put(aff_dict, Head(nodes).id, Head(nodes).text), Tail(nodes))

(* aff_dict.get(a) taken as a condition: the key is there and its text is not "" *)
AffGet(aff_dict, a) == Has(aff_dict, a) /\ aff_dict[a] # ""

(* lines 156-161 *)
RECURSIVE OrcidLoop(_, _)
OrcidLoop(author_tmp, ids) ==
    IF ids = <<>> THEN author_tmp
    ELSE IF Head(ids).type = "orcid" /\ ~IsNone(OrcidSearch(Head(ids).value))
         THEN OrcidLoop(Put(author_tmp, "orcid", Val(OrcidSearch(Head(ids).value))),
                        Tail(ids))
         ELSE OrcidLoop(author_tmp, Tail(ids))

(* the loop body of lines 170-175 with line 174 appending the label as     *)
(* written, a, in place of the resolved key, akey                           *)
AffRef_AppendLabel(st, a, aff_dict) ==
    LET akey == IF AffGet(aff_dict, a) THEN Some(a)
                ELSE IF AffGet(aff_dict, RemoveChar(a, "#"))
                     THEN Some(RemoveChar(a, "#"))
                     ELSE st.akey
    IN  IF IsNone(akey) THEN [st EXCEPT !.exc = "UnboundLocalError"]
        ELSE [akey |-> akey,
              affs |-> Append(st.affs, aff_dict[Val(akey)]),
              xaffs |-> Append(st.xaffs, a),
              exc |-> NoExc]

(* lines 170-175, one iteration: st = [akey, affs, xaffs, exc].  akey is a   *)
(* local of _parse_authors: unbound (None) until first assigned, and it      *)
(* keeps its value from one label, and from one creator, to the next.        *)
AffRef(st, a, aff_dict) ==
    LET akey == IF AffGet(aff_dict, a) THEN Some(a)
                ELSE IF AffGet(aff_dict, RemoveChar(a, "#"))
                     THEN Some(RemoveChar(a, "#"))
                     ELSE st.akey
    IN  IF IsNone(akey) THEN [st EXCEPT !.exc = "UnboundLocalError"]
        ELSE [akey |-> akey,
              affs |-> Append(st.affs, aff_dict[Val(akey)]),
              xaffs |-> Append(st.xaffs, Val(akey)),
              exc |-> NoExc]

RECURSIVE AffRefLoop(_, _, _)
AffRefLoop(st, labels, aff_dict) ==
    IF labels = <<>> \/ st.exc # NoExc THEN st
    ELSE AffRefLoop(AffRef(st, Head(labels), aff_dict), Tail(labels), aff_dict)

(* lines 151-163: the fields of one creator that do not involve affiliations *)
AuthorFields(c) ==
    LET a1 == IF IsNone(c.givenNames) THEN EmptyDict
              ELSE Put(EmptyDict, "given", Val(c.givenNames))
        a2 == IF IsNone(c.familyName) THEN a1 ELSE Put(a1, "surname", Val(c.familyName))
        a3 == OrcidLoop(a2, c.id)
    IN  IF IsNone(c.email) THEN a3 ELSE Put(a3, "email", Val(c.email))

(* lines 150-178: st = [akey, author_list, exc] *)
RECURSIVE CreatorLoop(_, _, _)
CreatorLoop(st, creators, aff_dict) ==
    IF creators = <<>> \/ st.exc # NoExc THEN st
    ELSE
    LET c == Head(creators)
        author_tmp == AuthorFields(c)
    IN  IF IsNone(c.affiliationRef)
        THEN CreatorLoop([st EXCEPT !.author_list = Append(st.author_list, author_tmp)],
                         Tail(creators), aff_dict)
        ELSE
        LET r == AffRefLoop([akey |-> st.akey, affs |-> <<>>, xaffs |-> <<>>,
                             exc |-> NoExc],
                            StrSplitWs(Val(c.affiliationRef)), aff_dict)
        IN  IF r.exc # NoExc THEN [st EXCEPT !.exc = r.exc]
            ELSE CreatorLoop([akey |-> r.akey,
                              author_list |-> Append(st.author_list,
                                  Put(Put(author_tmp, "aff", r.affs), "xaff", r.xaffs)),
                              exc |-> NoExc],
                             Tail(creators), aff_dict)

Wiley_parse_authors(s) ==
    IF IsNone(s.content_meta) THEN Raise(s, "AttributeError")
    ELSE
    LET c == Val(s.content_meta)
        aff_dict == AffDictLoop(EmptyDict, c.affiliation)
        r == CreatorLoop([akey |-> None, author_list |-> <<>>, exc |-> NoExc],
                         c.creator, aff_dict)
    IN  IF r.exc # NoExc THEN Raise(s, r.exc)
        ELSE IF r.author_list # <<>>
             THEN Ok(SetMeta(s, Put(s.base_metadata, "authors", r.author_list)))
             ELSE Ok(s)

(* lines 183-186: the list is built and dropped; nothing is stored *)
Wiley_parse_keywords(s) ==
    IF IsNone(s.content_meta) THEN Raise(s, "AttributeError") ELSE Ok(s)

(* line 193: newline and no-break space become a space; "LF" and "NBSP"     *)
(* stand for those two characters                                           *)
RefXml(ref) == [i \in 1..Len(ref) |-> IF ref[i] \in {"LF", "NBSP"} THEN " " ELSE ref[i]]

Wiley_parse_references(s) ==
    IF IsNone(s.bib) THEN Ok(s)
    ELSE Ok(SetMeta(s, Put(s.base_metadata, "references",
                           [i \in 1..Len(Val(s.bib)) |-> RefXml(Val(s.bib)[i])])))

(* lines 209-215 *)
RECURSIVE PubMetaLoop(_, _)
PubMetaLoop(s, nodes) ==
    IF nodes = <<>> THEN s
    ELSE LET p == Head(nodes) IN
         IF p.level = "product"
         THEN PubMetaLoop([s EXCEPT !.pubmeta_prod = Some(p.node)], Tail(nodes))
         ELSE IF p.level = "part"
         THEN PubMetaLoop([s EXCEPT !.pubmeta_part = Some(p.node)], Tail(nodes))
         ELSE IF p.level = "unit"
         THEN PubMetaLoop([s EXCEPT !.pubmeta_unit = Some(p.node)], Tail(nodes))
         ELSE PubMetaLoop(s, Tail(nodes))

(* lines 220-229: the n-th call of the sequence *)
Wiley_step(n, s) ==
    CASE n = 1 -> Wiley_parse_ids(s)
      [] n = 2 -> Wiley_parse_pub(s)
      [] n = 3 -> Wiley_parse_page(s)
      [] n = 4 -> Wiley_parse_pubdate(s)
      [] n = 5 -> Wiley_parse_edhistory(s)
      [] n = 6 -> Wiley_parse_title_abstract(s)
      [] n = 7 -> Wiley_parse_copyright(s)
      [] n = 8 -> Wiley_parse_authors(s)
      [] n = 9 -> Wiley_parse_keywords(s)
      [] OTHER -> Wiley_parse_references(s)

(* the calls from the n-th on: a raise ends the sequence *)
RECURSIVE Wiley_steps_from(_, _)
Wiley_steps_from(n, r) ==
    IF r.exc # NoExc \/ n > 10 THEN r
    ELSE Wiley_steps_from(n + 1, Wiley_step(n, r.self))

Wiley_steps(s) == Wiley_steps_from(1, Ok(s))

(* WileyParser.parse: t is [wellformed, publicationMeta, contentMeta,       *)
(* bibliography].  The result is [self, exc, ret]: ret is the dict handed   *)
(* to self.format when the call returns.                                    *)
Wiley_parse(s, t) ==
    IF ~t.wellformed THEN [self |-> s, exc |-> "XmlLoadException", ret |-> None]
    ELSE
    LET s1 == [PubMetaLoop(s, t.publicationMeta)
                   EXCEPT !.content_meta = t.contentMeta, !.bib = t.bibliography]
        r == Wiley_steps(s1)
    IN  [self |-> r.self, exc |-> r.exc,
         ret |-> IF r.exc = NoExc THEN Some(r.self.base_metadata) ELSE None]

----------------------------------------------------------------------------
(* ArxivParser *)

Arxiv_init == [base_metadata |-> EmptyDict, input_header |-> None, input_metadata |-> None]

(* DUBCORE_SCHEMA, line 39 *)
DUBCORE_SCHEMA == {"http://www.openarchives.org/OAI/2.0/oai_dc/"}

(* pat in s *)
StrContains(s, pat) ==
    \E i \in 1..(Len(s) - Len(pat) + 1) : SubSeq(s, i, i + Len(pat) - 1) = pat

(* s.replace(pat, ""): leftmost occurrences, not overlapping *)
RECURSIVE StrRemove(_, _)
StrRemove(s, pat) ==
    IF Len(s) < Len(pat) THEN s
    ELSE IF SubSeq(s, 1, Len(pat)) = pat
         THEN StrRemove(SubSeq(s, Len(pat) + 1, Len(s)), pat)
         ELSE <<Head(s)>> \o StrRemove(Tail(s), pat)

Chars_doi == <<"d", "o", "i", ":">>

Chars_eprint == <<"e", "p", "r", "i", "n", "t", " ", "a", "r", "X", "i", "v", ":">>

(* lines 66-70: st = [bm, exc] *)
RECURSIVE DcIdLoop(_, _)
DcIdLoop(st, dc_ids) ==
    IF dc_ids = <<>> \/ st.exc # NoExc THEN st
    ELSE LET d_text == Head(dc_ids) IN
         IF StrContains(d_text, Chars_doi)
         THEN IF ~Has(st.bm, "ids") THEN [st EXCEPT !.exc = "KeyError"]
              ELSE DcIdLoop([st EXCEPT !.bm = Put(st.bm, "ids",
                                 Put(st.bm["ids"], "doi", StrRemove(d_text, Chars_doi)))],
                            Tail(dc_ids))
         ELSE DcIdLoop(st, Tail(dc_ids))

Arxiv_parse_ids(s) ==
    IF IsNone(s.input_header) THEN Raise(s, "AttributeError")
    ELSE
    LET h == Val(s.input_header)
        bm1 == IF IsNone(h.identifier) THEN s.base_metadata
               ELSE LET id_array == StrSplit(Val(h.identifier), ":")
                        arxiv_id == id_array[Len(id_array)]
                    IN  Put(Put(s.base_metadata, "publication", Chars_eprint \o arxiv_id),
                            "ids",
                            [preprint |-> [source |-> "arXiv", id |-> arxiv_id]])
        r == DcIdLoop([bm |-> bm1, exc |-> NoExc], Val(s.input_metadata).identifier)
    IN  Raise(SetMeta(s, r.bm), r.exc)

Arxiv_parse_title(s) ==
    LET title_array == Val(s.input_metadata).title IN
    IF title_array # <<>>
    THEN IF Len(title_array) = 1
         THEN Ok(SetMeta(s, Put(s.base_metadata, "title", clean_output(title_array[1]))))
         ELSE Ok(SetMeta(s, Put(s.base_metadata, "title",
                                clean_output(StrJoin(title_array, <<":", " ">>)))))
    ELSE Raise(s, "MissingTitleException")

(* utils.AuthorNames.parse: the entries one dc:creator text yields, none for *)
(* a text that holds no name                                                 *)
AuthorNames_parse(a) == IF a = <<>> THEN <<>> ELSE <<<<"AuthorNames.parse", a>>>>

RECURSIVE ArxivAuthorLoop(_, _)
ArxivAuthorLoop(authors_out, author_array) ==
    IF author_array = <<>> THEN authors_out
    ELSE ArxivAuthorLoop(authors_out \o AuthorNames_parse(Head(author_array)),
                         Tail(author_array))

Arxiv_parse_author(s) ==
    LET authors_out == ArxivAuthorLoop(<<>>, Val(s.input_metadata).creator) IN
    IF authors_out = <<>> THEN Raise(s, "MissingAuthorsException")
    ELSE Ok(SetMeta(s, Put(s.base_metadata, "authors", authors_out)))

Arxiv_parse_pubdate(s) ==
    LET dates == Val(s.input_metadata).date IN
    IF dates # <<>> THEN Ok(SetMeta(s, Put(s.base_metadata, "pubdate_electronic", dates[1])))
    ELSE Ok(s)

Arxiv_parse_abstract(s) ==
    LET desc_array == Val(s.input_metadata).description
        bm1 == IF desc_array # <<>>
               THEN Put(s.base_metadata, "abstract", clean_output(desc_array[1]))
               ELSE s.base_metadata
        rest == IF desc_array # <<>> THEN Tail(desc_array) ELSE <<>>
    IN  IF rest # <<>>
        THEN Ok(SetMeta(s, Put(bm1, "comments",
                 [i \in 1..Len(rest) |->
                     [origin |-> "arxiv", text |-> clean_output(rest[i])]])))
        ELSE Ok(SetMeta(s, bm1))

Arxiv_parse_keywords(s) ==
    LET keywords_array == Val(s.input_metadata).subject IN
    IF keywords_array # <<>>
    THEN Ok(SetMeta(s, Put(s.base_metadata, "keywords",
             [i \in 1..Len(keywords_array) |->
                 [system |-> "arxiv", string |-> keywords_array[i]]])))
    ELSE Ok(s)

(* BaseBeautifulSoupParser._entity_convert: decodes character entities in   *)
(* the values of the dict; the texts of this model hold none                *)
entity_convert(bm) == bm

(* lines 145-149: the schema check on the metadata root *)
Arxiv_schema_check(s) ==
    IF IsNone(s.input_metadata) THEN Raise(s, "AttributeError")
    ELSE LET attr == Val(s.input_metadata).xmlns
             schema_spec == IF IsNone(attr) THEN "" ELSE Val(attr)
         IN  IF schema_spec = "" THEN Raise(s, "NoSchemaException")
             ELSE IF schema_spec \notin DUBCORE_SCHEMA THEN Raise(s, "WrongSchemaException")
             ELSE Ok(s)

(* lines 151-156: the n-th call of the sequence *)
Arxiv_step(n, s) ==
    CASE n = 1 -> Arxiv_parse_ids(s)
      [] n = 2 -> Arxiv_parse_title(s)
      [] n = 3 -> Arxiv_parse_author(s)
      [] n = 4 -> Arxiv_parse_pubdate(s)
      [] n = 5 -> Arxiv_parse_abstract(s)
      [] OTHER -> Arxiv_parse_keywords(s)

(* the calls from the n-th on: a raise ends the sequence *)
RECURSIVE Arxiv_steps_from(_, _)
Arxiv_steps_from(n, r) ==
    IF r.exc # NoExc \/ n > 6 THEN r
    ELSE Arxiv_steps_from(n + 1, Arxiv_step(n, r.self))

(* lines 151-158 *)
Arxiv_steps(s) ==
    LET r == Arxiv_steps_from(1, Ok(s))
    IN  IF r.exc # NoExc THEN r
        ELSE Ok(SetMeta(r.self, entity_convert(r.self.base_metadata)))

(* ArxivParser.parse: t is [wellformed, record]; record is None or          *)
(* Some([header, metadata]), metadata None or Some([oai_dc]).  The result   *)
(* is [self, exc, ret] as for WileyParser.parse.                            *)
Arxiv_parse(s, t) ==
    IF ~t.wellformed THEN [self |-> s, exc |-> "XmlLoadException", ret |-> None]
    ELSE
    LET s1 == IF ~IsNone(t.record)
              THEN [s EXCEPT !.input_header = Val(t.record).header] ELSE s
        s2 == IF ~IsNone(t.record) /\ ~IsNone(Val(t.record).metadata)
              THEN [s1 EXCEPT !.input_metadata = Val(Val(t.record).metadata).oai_dc]
              ELSE s1
        c == Arxiv_schema_check(s2)
        r == IF c.exc # NoExc THEN c ELSE Arxiv_steps(c.self)
    IN  [self |-> r.self, exc |-> r.exc,
         ret |-> IF r.exc = NoExc THEN Some(r.self.base_metadata) ELSE None]


----------------------------------------------------------------------------
(* Inputs *)

MaxEvents == 3

BSeq(S, n) == UNION {[1..k -> S] : k \in 0..n}

BaseUnit ==
    [doi |-> None, id |-> <<>>, numbering |-> <<>>, event |-> <<>>,
     countGroup |-> None, copyright |-> None]

BasePart == [numbering |-> <<>>, coverDate |-> None]

EventTypes ==
    {"firstOnline", "publishedOnlineFinalForm", "publishedOnlineAccepted",
     "manuscriptRevised", "manuscriptReceived", "manuscriptAccepted"}

EventDates == {"2021-03-04", "2021-05-06"}

EventNodes == [type : EventTypes, date : EventDates]

CoverDates ==
    {None,
     Some(<<"2", "1">>),
     Some(<<"2", "1", "-", "0", "5", "-", "0", "9">>)}

(* what an earlier parse on the same instance may have left *)
StaleMeta ==
    [pubdate_electronic |-> "1999-01-01", edhist_rev |-> <<"1999-01-01">>,
     edhist_acc |-> "1999-01-01"]

----------------------------------------------------------------------------
(* SpecEvents: _parse_pubdate then _parse_edhistory (lines 223-224) on one   *)
(* instance, for every event list up to MaxEvents                            *)

InitEvents ==
    /\ cls = "WileyParser"
    /\ \E ev \in BSeq(EventNodes, MaxEvents), cd \in CoverDates,
          bm \in {EmptyDict, StaleMeta} :
          self = [Wiley_init EXCEPT
                     !.base_metadata = bm,
                     !.pubmeta_part = Some([BasePart EXCEPT !.coverDate = cd]),
                     !.pubmeta_unit = Some([BaseUnit EXCEPT !.event = ev])]
    /\ text = None
    /\ output = NoExc
    /\ pc = "pubdate"
    /\ calls = 0

PubdateStep ==
    /\ pc = "pubdate"
    /\ LET r == Wiley_parse_pubdate(self)
       IN  /\ self' = r.self
           /\ output' = r.exc
           /\ pc' = IF r.exc = NoExc THEN "edhistory" ELSE "raised"
    /\ UNCHANGED <<cls, text, calls>>

EdhistoryStep ==
    /\ pc = "edhistory"
    /\ LET r == Wiley_parse_edhistory(self)
       IN  /\ self' = r.self
           /\ output' = r.exc
           /\ pc' = IF r.exc = NoExc THEN "done" ELSE "raised"
    /\ UNCHANGED <<cls, text, calls>>

NextEvents == PubdateStep \/ EdhistoryStep

SpecEvents == InitEvents /\ [][NextEvents]_vars

EventsOf(s) == Val(s.pubmeta_unit).event

HasType(ev, t) == \E i \in 1..Len(ev) : ev[i].type = t

DateOfType(ev, t, d) == \E i \in 1..Len(ev) : ev[i].type = t /\ ev[i].date = d

(* C1: once _parse_pubdate has run, if the unit has a firstOnline event then *)
(* pubdate_electronic is the date of a firstOnline event; otherwise, if it   *)
(* has a publishedOnlineFinalForm event, pubdate_electronic is the date of a *)
(* publishedOnlineFinalForm event -- in whatever order the events come.      *)
C1_TierPrecedence ==
    pc \in {"edhistory", "done"} =>
        LET ev == EventsOf(self)
            bm == self.base_metadata
        IN  IF HasType(ev, "firstOnline")
            THEN /\ Has(bm, "pubdate_electronic")
                 /\ DateOfType(ev, "firstOnline", bm["pubdate_electronic"])
            ELSE HasType(ev, "publishedOnlineFinalForm") =>
                 /\ Has(bm, "pubdate_electronic")
                 /\ DateOfType(ev, "publishedOnlineFinalForm", bm["pubdate_electronic"])

(* a firstOnline event is followed by lower-tier events carrying another date *)
C1_Witness ==
    /\ pc = "done"
    /\ \E i, j, k \in 1..Len(EventsOf(self)) :
          /\ i < j /\ j < k
          /\ EventsOf(self)[i].type = "firstOnline"
          /\ EventsOf(self)[j].type = "publishedOnlineFinalForm"
          /\ EventsOf(self)[k].type = "publishedOnlineAccepted"
          /\ EventsOf(self)[j].date # EventsOf(self)[i].date
          /\ EventsOf(self)[k].date # EventsOf(self)[i].date
          /\ self.base_metadata["pubdate_electronic"] = EventsOf(self)[i].date

RECURSIVE DatesOfType(_, _)
DatesOfType(ev, t) ==
    IF ev = <<>> THEN <<>>
    ELSE IF Head(ev).type = t THEN <<Head(ev).date>> \o DatesOfType(Tail(ev), t)
    ELSE DatesOfType(Tail(ev), t)

(* C10: once _parse_edhistory has run, edhist_rev is the list of the dates   *)
(* of all manuscriptRevised events in document order, edhist_rec that of all *)
(* manuscriptReceived events, and edhist_acc is one date, not a list.        *)
C10_EdhistLists ==
    pc = "done" =>
        LET ev == EventsOf(self)
            bm == self.base_metadata
        IN  /\ HasType(ev, "manuscriptRevised") =>
                  bm["edhist_rev"] = DatesOfType(ev, "manuscriptRevised")
            /\ HasType(ev, "manuscriptReceived") =>
                  bm["edhist_rec"] = DatesOfType(ev, "manuscriptReceived")
            /\ HasType(ev, "manuscriptAccepted") => bm["edhist_acc"] \in EventDates

(* the highest tier of which the event list has an event, "" when none *)
TopTier(ev) ==
    IF HasType(ev, "firstOnline") THEN "firstOnline"
    ELSE IF HasType(ev, "publishedOnlineFinalForm") THEN "publishedOnlineFinalForm"
    ELSE IF HasType(ev, "publishedOnlineAccepted") THEN "publishedOnlineAccepted"
    ELSE ""

LastDate(ev, t) == DatesOfType(ev, t)[Len(DatesOfType(ev, t))]

FirstDate(ev, t) == DatesOfType(ev, t)[1]

(* C11 as stated: once _parse_pubdate has run, pubdate_electronic is the     *)
(* date of the last event, in document order, of the highest tier that has   *)
(* an event.                                                                 *)
C11_LastOfTopTier ==
    (pc \in {"edhistory", "done"} /\ TopTier(EventsOf(self)) # "") =>
        /\ Has(self.base_metadata, "pubdate_electronic")
        /\ self.base_metadata["pubdate_electronic"] =
              LastDate(EventsOf(self), TopTier(EventsOf(self)))

(* C11 amended: once _parse_pubdate has run, pubdate_electronic is the date  *)
(* of the first firstOnline event when there is one (the search ends         *)
(* there), and otherwise the date of the last event of the highest tier      *)
(* that has an event (publishedOnlineFinalForm, else                         *)
(* publishedOnlineAccepted).                                                 *)
C11_FirstOnlineFirstElseLast ==
    (pc \in {"edhistory", "done"} /\ TopTier(EventsOf(self)) # "") =>
        /\ Has(self.base_metadata, "pubdate_electronic")
        /\ self.base_metadata["pubdate_electronic"] =
              IF TopTier(EventsOf(self)) = "firstOnline"
              THEN FirstDate(EventsOf(self), "firstOnline")
              ELSE LastDate(EventsOf(self), TopTier(EventsOf(self)))

(* two firstOnline events with different dates: the first one is kept *)
C11_Witness ==
    /\ pc = "done"
    /\ Len(DatesOfType(EventsOf(self), "firstOnline")) >= 2
    /\ FirstDate(EventsOf(self), "firstOnline") # LastDate(EventsOf(self), "firstOnline")
    /\ self.base_metadata["pubdate_electronic"] = FirstDate(EventsOf(self), "firstOnline")

----------------------------------------------------------------------------
(* SpecPage: _parse_page (line 222) on one unit-level publicationMeta *)

Chars_na == <<"n", "/", "a">>

Chars_no == <<"n", "o">>

PageFirstTexts == {<<>>, Chars_na, Chars_no, <<"1", "0", "1">>}

PageLastTexts == {Chars_na, Chars_no, <<"1", "2">>}

SocietyTexts == {Chars_na, <<"S", "7">>}

ELocatorTexts == {<<"e", "1", "2", "3", "4", "5", "6", "7", "8", "9", "0">>, <<"e", "4">>}

PageNumberings ==
    {f \o l :
        f \in {<<>>} \cup {<<[type |-> "pageFirst", text |-> t]>> : t \in PageFirstTexts},
        l \in {<<>>} \cup {<<[type |-> "pageLast", text |-> t]>> : t \in PageLastTexts}}

PageIds ==
    {<<[type |-> "publisher", value |-> "P1", text |-> <<>>]>> \o a \o b :
        a \in {<<>>} \cup {<<[type |-> "society", value |-> "", text |-> t]>> :
                              t \in SocietyTexts},
        b \in {<<>>} \cup {<<[type |-> "eLocator", value |-> "", text |-> t]>> :
                              t \in ELocatorTexts}}

CountGroups ==
    {None, Some(<<>>),
     Some(<<[type |-> "pageTotal", number |-> "9"]>>),
     Some(<<[type |-> "figureTotal", number |-> "3"]>>)}

PageUnits ==
    {[BaseUnit EXCEPT !.numbering = n, !.id = i, !.countGroup = g] :
        n \in PageNumberings, i \in PageIds, g \in CountGroups}

InitPage ==
    /\ cls = "WileyParser"
    /\ \E u \in PageUnits :
          /\ self = [Wiley_init EXCEPT !.pubmeta_unit = Some(u)]
          /\ text = u
    /\ output = NoExc
    /\ pc = "page"
    /\ calls = 0

PageStep ==
    /\ pc = "page"
    /\ LET r == Wiley_parse_page(self)
       IN  /\ self' = r.self
           /\ output' = r.exc
           /\ pc' = IF r.exc = NoExc THEN "done" ELSE "raised"
    /\ UNCHANGED <<cls, text, calls>>

NextPage == PageStep

SpecPage == InitPage /\ [][NextPage]_vars

(* the unit with every pageFirst node that holds a sentinel taken out *)
WithoutSentinelPageFirst(u) ==
    [u EXCEPT !.numbering =
        SelectSeq(u.numbering,
                  LAMBDA n : ~(n.type = "pageFirst" /\ n.text \in PageSentinels))]

(* C5: "n/a" and "no" are never stored as page_first or page_last, and a     *)
(* pageFirst node holding one of them gives the record that the same unit    *)
(* without that node gives (society id as page_first, last 5 characters of   *)
(* the eLocator id as electronic_id).                                        *)
C5_SentinelIsAbsent ==
    pc = "done" =>
        LET bm == self.base_metadata
            absent == [Wiley_init EXCEPT
                          !.pubmeta_unit = Some(WithoutSentinelPageFirst(text))]
        IN  /\ Has(bm, "page_first") => bm["page_first"] \notin PageSentinels
            /\ Has(bm, "page_last") => bm["page_last"] \notin PageSentinels
            /\ bm = Wiley_parse_page(absent).self.base_metadata

----------------------------------------------------------------------------
(* SpecAuthors: _parse_authors (line 227) on one contentMeta *)

MaxRefs == 2

BaseContent ==
    [titleGroup |-> None, abstractGroup |-> None, affiliation |-> <<>>,
     creator |-> <<>>, keyword |-> <<>>]

Label_a == <<"a", "1">>

Label_b == <<"b", "2">>

Label_c == <<"c", "3">>

Hash(l) == <<"#">> \o l

Aff(id, t) == [id |-> id, text |-> t]

(* the affiliation declarations of a fragment, in document order *)
AffTables ==
    {<<>>,
     <<Aff(Label_a, "Univ A")>>,
     <<Aff(Label_a, "Univ A"), Aff(Label_b, "Univ B")>>,
     <<Aff(Label_a, ""), Aff(Label_b, "Univ B")>>,
     <<Aff(Hash(Label_a), "Univ HA"), Aff(Label_a, "Univ A")>>,
     <<Aff(Label_a, "Univ A"), Aff(Label_a, "Univ A2")>>}

RefLabels == {Label_a, Hash(Label_a), Label_b, Label_c}

(* the affiliationRef attribute: None, or labels separated by a space *)
AffiliationRefs ==
    {None} \cup {Some(StrJoin(ls, <<" ">>)) : ls \in BSeq(RefLabels, MaxRefs)}

Orcid_plain ==
    <<"0", "0", "0", "0", "-", "0", "0", "0", "2", "-",
      "1", "8", "2", "5", "-", "0", "0", "9", "X">>

Orcid_url == <<"o", "r", "g", "/">> \o Orcid_plain

Orcid_short == <<"0", "0", "0", "0", "-", "0", "0", "0", "2">>

CreatorProfiles ==
    {[givenNames |-> None, familyName |-> None, id |-> <<>>, email |-> None],
     [givenNames |-> Some("Ada"), familyName |-> Some("Lovelace"),
      id |-> <<[type |-> "orcid", value |-> Orcid_url],
               [type |-> "orcid", value |-> Orcid_short],
               [type |-> "other", value |-> Orcid_plain]>>,
      email |-> Some("ada@example.org")]}

Creator(p, ref) ==
    [givenNames |-> p.givenNames, familyName |-> p.familyName, id |-> p.id,
     email |-> p.email, affiliationRef |-> ref]

CreatorLists ==
    {<<>>}
    \cup {<<Creator(p, r)>> : p \in CreatorProfiles, r \in AffiliationRefs}
    \cup {<<Creator(p, r1), Creator(p, r2)>> :
             p \in CreatorProfiles, r1 \in AffiliationRefs, r2 \in AffiliationRefs}

InitAuthors ==
    /\ cls = "WileyParser"
    /\ \E t \in AffTables, cs \in CreatorLists :
          self = [Wiley_init EXCEPT
                     !.content_meta = Some([BaseContent EXCEPT !.affiliation = t,
                                                               !.creator = cs])]
    /\ text = None
    /\ output = NoExc
    /\ pc = "authors"
    /\ calls = 0

AuthorsStep ==
    /\ pc = "authors"
    /\ LET r == Wiley_parse_authors(self)
       IN  /\ self' = r.self
           /\ output' = r.exc
           /\ pc' = IF r.exc = NoExc THEN "done" ELSE "raised"
    /\ UNCHANGED <<cls, text, calls>>

NextAuthors == AuthorsStep

SpecAuthors == InitAuthors /\ [][NextAuthors]_vars

(* the affiliation table of a fragment, read off its declarations: a label   *)
(* is a key when some declaration carries it, and its display text is that   *)
(* of the last such declaration                                              *)
TableKeys(nodes) == {nodes[i].id : i \in 1..Len(nodes)}

TableText(nodes, k) ==
    LET last == CHOOSE i \in 1..Len(nodes) :
                    /\ nodes[i].id = k
                    /\ \A j \in 1..Len(nodes) : nodes[j].id = k => j <= i
    IN  nodes[last].text

(* C4: every author entry _parse_authors emits with aff/xaff has the two     *)
(* lists of equal length, each xaff[i] a key of the fragment's affiliation   *)
(* table and aff[i] that key's display text.                                 *)
C4_AffXaffAligned ==
    (pc = "done" /\ Has(self.base_metadata, "authors")) =>
        LET decls == Val(self.content_meta).affiliation
            authors == self.base_metadata["authors"]
        IN  \A n \in 1..Len(authors) :
               LET a == authors[n] IN
               /\ Has(a, "aff") <=> Has(a, "xaff")
               /\ Has(a, "xaff") =>
                     /\ Len(a["aff"]) = Len(a["xaff"])
                     /\ \A i \in 1..Len(a["xaff"]) :
                           /\ a["xaff"][i] \in TableKeys(decls)
                           /\ a["aff"][i] = TableText(decls, a["xaff"][i])

(* an author is emitted whose affiliationRef has a '#' label, resolved to    *)
(* the key without the '#'                                                   *)
C4_Witness ==
    /\ pc = "done"
    /\ Has(self.base_metadata, "authors")
    /\ \E n \in 1..Len(self.base_metadata["authors"]) :
          LET a == self.base_metadata["authors"][n]
              c == Val(self.content_meta).creator[n]
          IN  /\ Has(a, "xaff")
              /\ Val(c.affiliationRef) = Hash(Label_a) \o <<" ">> \o Label_b
              /\ a["xaff"] = <<Label_a, Label_b>>
              /\ a["aff"] = <<"Univ A", "Univ B">>

(* the keys of the labels that resolve, in order: as written, else with '#'  *)
(* removed, else nothing                                                     *)
RECURSIVE ResolvedKeys(_, _)
ResolvedKeys(labels, keys) ==
    IF labels = <<>> THEN <<>>
    ELSE LET l == Head(labels)
             k == IF l \in keys THEN <<l>>
                  ELSE IF RemoveChar(l, "#") \in keys THEN <<RemoveChar(l, "#")>>
                  ELSE <<>>
         IN  k \o ResolvedKeys(Tail(labels), keys)

(* C9: a label that resolves to no entry of the table is dropped: nothing    *)
(* is raised, and each author's xaff is the keys of its resolvable labels.   *)
C9_UnresolvedDropped ==
    pc \in {"done", "raised"} =>
        /\ output = NoExc
        /\ LET cm == Val(self.content_meta) IN
           \A n \in 1..Len(cm.creator) :
              ~IsNone(cm.creator[n].affiliationRef) =>
                 self.base_metadata["authors"][n]["xaff"] =
                    ResolvedKeys(StrSplitWs(Val(cm.creator[n].affiliationRef)),
                                 TableKeys(cm.affiliation))

----------------------------------------------------------------------------
(* SpecParse: parse called again and again on one parser instance, a new     *)
(* instance being constructed at any time                                    *)

MaxCalls == 2

Malformed == [wellformed |-> FALSE]

(* -- arXiv documents -- *)

Chars_oai_id ==
    <<"o", "a", "i", ":", "a", "r", "X", "i", "v", ".", "o", "r", "g", ":",
      "2", "1", "0", "1", ".", "7">>

Chars_doi_id == <<"d", "o", "i", ":", "1", "0", ".", "1", "/", "x">>

Chars_url_id == <<"h", "t", "t", "p", ":", "/", "/", "a">>

ArxivHeaders == {None, Some([identifier |-> None]), Some([identifier |-> Some(Chars_oai_id)])}

BaseDc ==
    [xmlns |-> None, identifier |-> <<>>, title |-> <<>>, creator |-> <<>>,
     date |-> <<>>, description |-> <<>>, subject |-> <<>>]

DcBodies ==
    {[BaseDc EXCEPT !.identifier = <<Chars_url_id, Chars_doi_id>>,
                    !.title = <<<<"T", "1">>>>,
                    !.creator = <<<<"A", "d", "a">>>>,
                    !.date = <<"2021-01-02", "2021-02-03">>,
                    !.description = <<"abstract text", "12 pages">>,
                    !.subject = <<"astro-ph">>],
     [BaseDc EXCEPT !.title = <<<<"T", "2">>, <<"S", "2">>>>,
                    !.creator = <<<<>>, <<"B", "o">>>>],
     [BaseDc EXCEPT !.creator = <<<<"A", "d", "a">>>>,
                    !.description = <<"abstract text">>],
     [BaseDc EXCEPT !.title = <<<<"T", "1">>>>, !.creator = <<<<>>>>]}

DcSchemas ==
    {None, Some(""), Some("http://www.openarchives.org/OAI/2.0/oai_dc/"),
     Some("http://arxiv.org/OAI/arXivRaw/")}

ArxivMetadatas ==
    {None, Some([oai_dc |-> None])}
    \cup {Some([oai_dc |-> Some([b EXCEPT !.xmlns = x])]) : b \in DcBodies, x \in DcSchemas}

ArxivDocs ==
    {Malformed, [wellformed |-> TRUE, record |-> None]}
    \cup {[wellformed |-> TRUE, record |-> Some([header |-> h, metadata |-> m])] :
             h \in ArxivHeaders, m \in ArxivMetadatas}

(* -- Wiley documents -- *)

WileyProds ==
    {<<>>,
     <<[level |-> "product",
        node |-> [issn |-> <<[type |-> "print", text |-> "0004-6256"]>>,
                  title |-> <<[type |-> "main", text |-> "Journal J"],
                              [type |-> "abbreviated", text |-> "JJ"]>>]]>>}

WileyParts ==
    {<<>>,
     <<[level |-> "part",
        node |-> [numbering |-> <<[type |-> "journalVolume", text |-> "12"],
                                  [type |-> "journalIssue", text |-> "3"],
                                  [type |-> "supplement", text |-> "S"]>>,
                  coverDate |-> Some(<<"2", "1", "-", "0", "5">>)]]>>}

WileyUnits ==
    {<<>>,
     <<[level |-> "unit",
        node |-> [BaseUnit EXCEPT !.numbering = <<[type |-> "pageFirst",
                                                   text |-> <<"1", "0", "1">>]>>]]>>,
     <<[level |-> "unit",
        node |-> [doi |-> Some("10.1002/x"),
                  id |-> <<[type |-> "publisher", value |-> "P1", text |-> <<>>],
                           [type |-> "society", value |-> "", text |-> <<"S", "7">>],
                           [type |-> "eLocator", value |-> "",
                            text |-> <<"e", "1", "2", "3", "4", "5", "6">>]>>,
                  numbering |-> <<[type |-> "pageFirst", text |-> Chars_na],
                                  [type |-> "pageLast", text |-> <<"1", "2">>]>>,
                  event |-> <<[type |-> "manuscriptReceived", date |-> "2021-03-04"],
                              [type |-> "firstOnline", date |-> "2021-05-06"]>>,
                  countGroup |-> Some(<<[type |-> "pageTotal", number |-> "9"]>>),
                  copyright |-> Some("(c) 2021")]]>>}

MainTitle == Some(<<[type |-> "main", text |-> "Title W"],
                    [type |-> "short", text |-> "TW"]>>)

OneCreator ==
    <<[givenNames |-> Some("Ada"), familyName |-> Some("Lovelace"),
       id |-> <<[type |-> "orcid", value |-> Orcid_url]>>,
       email |-> None, affiliationRef |-> Some(Hash(Label_a))]>>

WileyContents ==
    {None,
     Some([titleGroup |-> MainTitle,
           abstractGroup |-> Some(<<[type |-> "main", text |-> "abstract W"]>>),
           affiliation |-> <<Aff(Label_a, "Univ A")>>,
           creator |-> OneCreator,
           keyword |-> <<"stars">>]),
     Some([BaseContent EXCEPT !.titleGroup = MainTitle,
                              !.affiliation = <<Aff(Label_a, "Univ A")>>,
                              !.creator = OneCreator]),
     Some([BaseContent EXCEPT !.affiliation = <<Aff(Label_a, "Univ A")>>,
                              !.creator = OneCreator]),
     Some([BaseContent EXCEPT !.titleGroup = MainTitle])}

WileyBibs == {None, Some(<<<<"<", "c", ">", "LF", "x", "NBSP", "y">>>>)}

WileyDocs ==
    {Malformed}
    \cup {[wellformed |-> TRUE,
           publicationMeta |-> <<[level |-> "series", node |-> BasePart]>> \o p \o q \o u,
           contentMeta |-> c,
           bibliography |-> b] :
             p \in WileyProds, q \in WileyParts, u \in WileyUnits,
             c \in WileyContents, b \in WileyBibs}

NoOutput == [exc |-> NoExc, ret |-> None]

InitParse ==
    /\ cls \in {"ArxivParser", "WileyParser"}
    /\ self = (IF cls = "ArxivParser" THEN Arxiv_init ELSE Wiley_init)
    /\ text = None
    /\ output = NoOutput
    /\ pc = "idle"
    /\ calls = 0

(* ArxivParser() / WileyParser() *)
Construct ==
    /\ calls > 0
    /\ \E c \in {"ArxivParser", "WileyParser"} :
          /\ cls' = c
          /\ self' = (IF c = "ArxivParser" THEN Arxiv_init ELSE Wiley_init)
    /\ text' = None
    /\ output' = NoOutput
    /\ calls' = 0
    /\ UNCHANGED pc

ArxivParse ==
    /\ cls = "ArxivParser"
    /\ calls < MaxCalls
    /\ \E t \in ArxivDocs :
          LET r == Arxiv_parse(self, t)
          IN  /\ self' = r.self
              /\ output' = [exc |-> r.exc, ret |-> r.ret]
              /\ text' = Some(t)
    /\ calls' = calls + 1
    /\ UNCHANGED <<cls, pc>>

WileyParse ==
    /\ cls = "WileyParser"
    /\ calls < MaxCalls
    /\ \E t \in WileyDocs :
          LET r == Wiley_parse(self, t)
          IN  /\ self' = r.self
              /\ output' = [exc |-> r.exc, ret |-> r.ret]
              /\ text' = Some(t)
    /\ calls' = calls + 1
    /\ UNCHANGED <<cls, pc>>

NextParse == Construct \/ ArxivParse \/ WileyParse

SpecParse == InitParse /\ [][NextParse]_vars

(* the metadata root of an arXiv document: None when a level is missing *)
MetadataRoot(t) ==
    IF IsNone(t.record) THEN None
    ELSE IF IsNone(Val(t.record).metadata) THEN None
    ELSE Val(Val(t.record).metadata).oai_dc

(* the value of its xmlns:oai_dc attribute, "" when there is none *)
SchemaAttr(t) ==
    IF IsNone(MetadataRoot(t)) THEN ""
    ELSE IF IsNone(Val(MetadataRoot(t)).xmlns) THEN ""
    ELSE Val(Val(MetadataRoot(t)).xmlns)

Parsed(c) == cls = c /\ calls > 0 /\ Val(text).wellformed

(* C2: on a parsed tree the schema check of ArxivParser.parse has three      *)
(* outcomes: no xmlns:oai_dc attribute (or no metadata root at all) raises   *)
(* NoSchemaException, an attribute outside DUBCORE_SCHEMA raises             *)
(* WrongSchemaException, and otherwise neither is raised; the check raises   *)
(* nothing else.                                                             *)
C2_SchemaOutcomes ==
    Parsed("ArxivParser") =>
        LET a == SchemaAttr(Val(text)) IN
        /\ a = "" => output.exc = "NoSchemaException"
        /\ (a # "" /\ a \notin DUBCORE_SCHEMA) => output.exc = "WrongSchemaException"
        /\ a \in DUBCORE_SCHEMA =>
              output.exc \notin {"NoSchemaException", "WrongSchemaException"}

(* what a new instance of the same class returns for the same text *)
FreshParse(c, t) ==
    IF c = "ArxivParser" THEN Arxiv_parse(Arxiv_init, t) ELSE Wiley_parse(Wiley_init, t)

(* a Wiley document that has its three publicationMeta levels and contentMeta *)
WileyComplete(t) ==
    /\ \A l \in {"product", "part", "unit"} :
          \E i \in 1..Len(t.publicationMeta) : t.publicationMeta[i].level = l
    /\ ~IsNone(t.contentMeta)

(* an arXiv document that has a header and passes the schema check *)
ArxivComplete(t) ==
    /\ SchemaAttr(t) \in DUBCORE_SCHEMA
    /\ ~IsNone(Val(t.record).header)

HasTitleNode(c, t) ==
    IF c = "ArxivParser" THEN Val(MetadataRoot(t)).title # <<>>
    ELSE /\ ~IsNone(Val(t.contentMeta).titleGroup)
         /\ Val(Val(t.contentMeta).titleGroup) # <<>>

YieldsAuthors(c, t) ==
    IF c = "ArxivParser"
    THEN \E i \in 1..Len(Val(MetadataRoot(t)).creator) :
            AuthorNames_parse(Val(MetadataRoot(t)).creator[i]) # <<>>
    ELSE Val(t.contentMeta).creator # <<>>

Complete(c, t) == IF c = "ArxivParser" THEN ArxivComplete(t) ELSE WileyComplete(t)

(* C3: for both parsers, a well-formed record with no title node raises      *)
(* MissingTitleException and one that yields no author raises                *)
(* MissingAuthorsException; no record is returned in either case.  Stated    *)
(* for records that lack nothing else the parser reads.                      *)
C3_RequiredFields ==
    \A c \in {"ArxivParser", "WileyParser"} :
        (Parsed(c) /\ Complete(c, Val(text))) =>
            /\ ~HasTitleNode(c, Val(text)) =>
                  output.exc = "MissingTitleException" /\ IsNone(output.ret)
            /\ (HasTitleNode(c, Val(text)) /\ ~YieldsAuthors(c, Val(text))) =>
                  output.exc = "MissingAuthorsException" /\ IsNone(output.ret)

(* C6: whatever was parsed before on the instance, the record parse returns  *)
(* for a fragment is the record a new instance returns for that fragment.    *)
C6_NoCarryOver ==
    (calls > 0 /\ output.exc = NoExc) => output.ret = FreshParse(cls, Val(text)).ret

(* C8: a well-formed document that passes the schema check and has a title   *)
(* and authors parses without error, whichever other node it lacks.          *)
C8_SoftOmission ==
    \A c \in {"ArxivParser", "WileyParser"} :
        (/\ Parsed(c)
         /\ IF c = "ArxivParser" THEN SchemaAttr(Val(text)) \in DUBCORE_SCHEMA
            ELSE ~IsNone(Val(text).contentMeta)
         /\ HasTitleNode(c, Val(text))
         /\ YieldsAuthors(c, Val(text)))
        => output.exc = NoExc

----------------------------------------------------------------------------
(* MultiArxivParser: the boundary patterns start_re and end_re *)

MaxSuffix == 2

Chars_start == <<"<", "r", "e", "c", "o", "r", "d">>

Chars_end == <<"<", "/", "r", "e", "c", "o", "r", "d">>

(* re.match of  lit(?!-)[^>]*>  at position i of s *)
BoundaryMatchAt(s, lit, i) ==
    LET n == i + Len(lit) IN
    /\ n - 1 <= Len(s)
    /\ SubSeq(s, i, n - 1) = lit
    /\ (n <= Len(s) => s[n] # "-")
    /\ \E j \in n..Len(s) : s[j] = ">"

(* re.search: a match somewhere in s *)
BoundarySearch(s, lit) == \E i \in 1..Len(s) : BoundaryMatchAt(s, lit, i)

(* start_re, line 17 *)
start_re(s) == BoundarySearch(s, Chars_start)

(* end_re, line 18 *)
end_re(s) == BoundarySearch(s, Chars_end)

NameSuffixChars == {"s", "-", "x", " "}

(* one tag: "<" or "</", a name that starts with "record", ">" *)
TagTexts ==
    {open \o <<"r", "e", "c", "o", "r", "d">> \o suffix \o close :
        open \in {<<"<">>, <<"<", "/">>},
        suffix \in BSeq(NameSuffixChars, MaxSuffix),
        close \in {<<">">>, <<" ", "i", "d", "=", "1", ">">>}}

InitChunk ==
    /\ cls = "MultiArxivParser"
    /\ self = EmptyDict
    /\ text \in TagTexts
    /\ output = [start |-> "untried", end |-> "untried"]
    /\ pc = "idle"
    /\ calls = 0

SearchStart ==
    /\ output.start = "untried"
    /\ output' = [output EXCEPT
                     !.start = IF start_re(text) THEN "match" ELSE "nomatch"]
    /\ UNCHANGED <<cls, self, text, pc, calls>>

SearchEnd ==
    /\ output.end = "untried"
    /\ output' = [output EXCEPT !.end = IF end_re(text) THEN "match" ELSE "nomatch"]
    /\ UNCHANGED <<cls, self, text, pc, calls>>

NextChunk == SearchStart \/ SearchEnd

SpecChunk == InitChunk /\ [][NextChunk]_vars

(* the name of the tag: what follows "<" or "</" up to a space or ">" *)
RECURSIVE NameChars(_)
NameChars(s) ==
    IF s = <<>> \/ Head(s) \in {" ", ">"} THEN <<>>
    ELSE <<Head(s)>> \o NameChars(Tail(s))

TagName(s) == IF s[2] = "/" THEN NameChars(SubSeq(s, 3, Len(s)))
              ELSE NameChars(Tail(s))

(* C7: start_re and end_re take a tag as a boundary only when its name is    *)
(* exactly "record".                                                         *)
C7_ExactTagName ==
    (output.start = "match" \/ output.end = "match") =>
        TagName(text) = <<"r", "e", "c", "o", "r", "d">>

====
